---- MODULE Spec2Model ----
(***************************************************************************)
(* Authentication / session subsystem of proddev-backend.                  *)
(*                                                                         *)
(* The model follows backend/services/auth.py, backend/services/oauth.py   *)
(* and backend/utils/auth.py.  Every handler is split at its `await`       *)
(* points on the user / dashboard store and on the mail transport: these   *)
(* are the places where another request can run in between.  A request     *)
(* works on its own in-memory copy of the User document (Beanie loads a    *)
(* document, the handler mutates the object, `save()` writes the whole     *)
(* document back).                                                         *)
(*                                                                         *)
(* Strings that are converted by the code (e-mail addresses) are sequences *)
(* of one-character strings, so that bleach.clean / strip / lower are      *)
(* computed and not assumed.  Fields of User that no handler of the        *)
(* subsystem reads back (full_name, created_at, course lists) are left     *)
(* out of the document.                                                    *)
(***************************************************************************)
EXTENDS Integers, Sequences, FiniteSets, TLC

\* ------------------------------------------------------------------ bounds
NProcs == 2            \* requests that can be in flight at the same time
MaxUsers == 2          \* User documents the store can hold
MaxSid == 2            \* uuid4 values drawn for session entries
MaxDashboards == 2     \* Dashboard documents the store can hold
MaxTime == 60          \* last clock value (minutes)
TickMinutes == 60      \* minutes that pass in one clock step

\* ------------------------------------------------------- program constants
ACCESS_TOKEN_MINUTES == 60
SESSION_MINUTES == 60

Procs == 1..NProcs
Passwords == {"pw1", "pw2"}         \* what a caller types at login
RegisterPasswords == {"pw1"}        \* what a caller chooses at register
Devices == {"desktop"}

\* ------------------------------------------------------------ text helpers
Whitespace == {" "}

Lower(c) ==
  CASE c = "A" -> "a"
    [] c = "B" -> "b"
    [] OTHER -> c

str_lower(s) == [i \in DOMAIN s |-> Lower(s[i])]

RECURSIVE lstrip(_)
lstrip(s) ==
  IF s # <<>> /\ Head(s) \in Whitespace THEN lstrip(Tail(s)) ELSE s

RECURSIVE rstrip(_)
rstrip(s) ==
  IF s # <<>> /\ s[Len(s)] \in Whitespace
    THEN rstrip(SubSeq(s, 1, Len(s) - 1))
    ELSE s

str_strip(s) == lstrip(rstrip(s))

Entities == { <<"&", "a", "m", "p", ";">>,
              <<"&", "l", "t", ";">>,
              <<"&", "g", "t", ";">> }

StartsEntity(s) ==
  \E e \in Entities : Len(s) >= Len(e) /\ SubSeq(s, 1, Len(e)) = e

RECURSIVE bleach_clean(_)
bleach_clean(s) ==
  IF s = <<>> THEN <<>>
  ELSE CASE Head(s) = "&" /\ ~StartsEntity(s) ->
              <<"&", "a", "m", "p", ";">> \o bleach_clean(Tail(s))
         [] Head(s) = "<" -> <<"&", "l", "t", ";">> \o bleach_clean(Tail(s))
         [] Head(s) = ">" -> <<"&", "g", "t", ";">> \o bleach_clean(Tail(s))
         [] OTHER -> <<Head(s)>> \o bleach_clean(Tail(s))

\* variant: the address is cleaned and trimmed and keeps its letter case
NormalizeEmail_NoLower(e) == str_strip(bleach_clean(e))

\* email = bleach.clean(email).strip().lower()
NormalizeEmail(e) == str_lower(str_strip(bleach_clean(e)))

\* what the claims call the normalized e-mail: trimmed and case-folded
TrimFold(e) == str_lower(str_strip(e))

\* pydantic EmailStr on the User document: the characters an address
\* cannot contain make the constructor raise ValidationError
BadEmailChars == {" ", ";", "<", ">"}
EmailStrOk(e) == e # <<>> /\ \A i \in DOMAIN e : e[i] \notin BadEmailChars

\* ------------------------------------------------------------------ inputs
\* addresses callers type, and addresses the OAuth provider reports; the
\* runs with requests in parallel draw from the smaller sets
SeqEmails == { <<"a">>, <<" ", "A", " ">>, <<"A">>, <<"a", "&">> }
SeqProviderEmails == { <<"a">>, <<"A">>, <<"a", "&">> }
ConcEmails == { <<"a">>, <<" ", "A", " ">> }
ConcProviderEmails == { <<"a">> }

\* --------------------------------------------------------------- passwords
\* passlib bcrypt: the stored value is a salted digest of the plaintext,
\* "oauth_google" is stored as it is and is not a digest
hash_password(p) == [scheme |-> "bcrypt", digest_of |-> p]
OAuthSentinel == [scheme |-> "none", digest_of |-> "oauth_google"]

\* "true" / "false", or "raise" (passlib UnknownHashError) when the stored
\* value is not a hash of a configured scheme
verify_password(given, hashed) ==
  IF hashed.scheme # "bcrypt" THEN "raise"
  ELSE IF hashed.digest_of = given THEN "true" ELSE "false"

\* ------------------------------------------------------------------ tokens
\* a JWT: its claims and whether its signature verifies under SECRET_KEY;
\* tid = 0 stands for "no token_id claim", sub = 0 for "no sub claim"
NoToken == [sub |-> 0, exp |-> 0, tid |-> 0, signed |-> FALSE]

generate_access_token(data_sub, t) ==
  [sub |-> data_sub, exp |-> t + ACCESS_TOKEN_MINUTES, tid |-> 0,
   signed |-> TRUE]

\* variant: the expiry is not looked at
verify_access_token_NoExpiry(tok, t) == tok.signed

\* jwt.decode: the signature must verify and the expiry must lie ahead
verify_access_token(tok, t) == tok.signed /\ t < tok.exp

\* --------------------------------------------------------------- documents
NoDoc == [email |-> <<>>, password |-> OAuthSentinel, is_verified |-> FALSE,
          has_completed_onboarding |-> FALSE, active_tokens |-> <<>>]

NewUser(e, pw, verified) ==
  [email |-> e, password |-> pw, is_verified |-> verified,
   has_completed_onboarding |-> FALSE, active_tokens |-> <<>>]

active_token_entry(sid, t, device) ==
  [active_token_id |-> sid, expires_in |-> t + SESSION_MINUTES,
   device |-> device]

VARIABLES
  users,        \* the User collection: users[i] is the document with id i
  dashboards,   \* the Dashboard collection: dashboards[k] is the owner id
  now,          \* wall clock, minutes
  nextSid,      \* next value uuid4() returns for a session entry
  outbox,       \* tokens that left the server (mail delivered, cookie set)
  req,          \* the requests in flight, one record per slot
  response      \* the response the last step sent, NoResponse if none

vars == <<users, dashboards, now, nextSid, outbox, req, response>>

\* a request slot: the handler that runs in it, the await it is suspended
\* at, and the handler's local variables (user is its copy of the document);
\* entry records what verify_email found when it loaded the user: the
\* document as stored and the number of Dashboard documents
NoEntry == [user |-> NoDoc, dashboards |-> 0]

Idle == [op |-> "none", pc |-> "idle", uid |-> 0, user |-> NoDoc,
         sid |-> 0, tok |-> NoToken, device |-> "desktop",
         entry |-> NoEntry]

\* a response: the handler, its status and message, the user and session it
\* is about, the token it carries (for a protected route: the token the
\* request presented) and what became of the mail the handler sent
NoResponse == [op |-> "none", result |-> "none", uid |-> 0, sid |-> 0,
               tok |-> NoToken, mail |-> "none"]

InFlight(ops) == Cardinality({q \in Procs : req[q].op \in ops})

\* a new request takes the first free slot
FreeSlot(p) ==
  /\ req[p].pc = "idle"
  /\ \A q \in Procs : q < p => req[q].pc # "idle"

UserIds == 1..Len(users)

SessionIds(doc) ==
  {doc.active_tokens[i].active_token_id : i \in DOMAIN doc.active_tokens}

\* User.find_one(User.email == email): the first document whose stored
\* e-mail is exactly the given string, 0 when there is none
find_one(e) ==
  IF \E i \in UserIds : users[i].email = e
    THEN CHOOSE i \in UserIds :
           users[i].email = e /\ \A j \in UserIds : users[j].email = e => i <= j
    ELSE 0

\* the handler returns or raises: the slot is free, the response is sent
FinishMail(p, op, res, uid, sid, tok, mail) ==
  /\ req' = [req EXCEPT ![p] = Idle]
  /\ response' = [op |-> op, result |-> res, uid |-> uid, sid |-> sid,
                  tok |-> tok, mail |-> mail]

Finish(p, op, res, uid, sid, tok) ==
  FinishMail(p, op, res, uid, sid, tok, "none")

Mail(delivered) == IF delivered THEN "sent" ELSE "failed"

\* the handler is suspended at its next await with locals r
Suspend(p, r) ==
  /\ req' = [req EXCEPT ![p] = r]
  /\ response' = NoResponse

\* variant: entries past their expires_in are dropped when one is appended
AppendSession_EvictsExpired(doc, sid, t, device) ==
  [doc EXCEPT !.active_tokens =
     Append(SelectSeq(@, LAMBDA e : t < e.expires_in),
            active_token_entry(sid, t, device))]

\* variant: the entry is appended twice
AppendSession_Twice(doc, sid, t, device) ==
  [doc EXCEPT !.active_tokens =
     Append(Append(@, active_token_entry(sid, t, device)),
            active_token_entry(sid, t, device))]

\* user.active_tokens.append(active_token_entry)
AppendSession(doc, sid, t, device) ==
  [doc EXCEPT !.active_tokens = Append(@, active_token_entry(sid, t, device))]

\* variant: the save adds the document's new entries to the stored list
Save_KeepsStoredSessions(uid, doc) ==
  users' = [users EXCEPT ![uid] =
              [doc EXCEPT !.active_tokens =
                 users[uid].active_tokens
                   \o SelectSeq(@, LAMBDA e :
                        e.active_token_id \notin SessionIds(users[uid]))]]

\* await user.save(): the whole document replaces the stored one
Save(uid, doc) == users' = [users EXCEPT ![uid] = doc]

Init ==
  /\ users = <<>>
  /\ dashboards = <<>>
  /\ now = 0
  /\ nextSid = 1
  /\ outbox = {}
  /\ req = [p \in Procs |-> Idle]
  /\ response = NoResponse

\* the clock advances
Tick ==
  /\ now < MaxTime
  /\ now' = now + TickMinutes
  /\ response' = NoResponse
  /\ UNCHANGED <<users, dashboards, nextSid, outbox, req>>

UserBudget == Len(users) + InFlight({"register", "google"}) < MaxUsers
\* requests in flight that have not drawn their uuid4 yet
AwaitingSid ==
  Cardinality({q \in Procs : req[q].pc \in {"ve_dash", "ve_save1", "go_insert"}})

SidBudget == nextSid + AwaitingSid <= MaxSid
DashboardBudget == Len(dashboards) + InFlight({"verify"}) < MaxDashboards

\* ------------------------------------------------ AuthService.register
\* the call up to the completion of `await User.find_one(...)`, the
\* duplicate check, hash_password and the User(...) constructor
Register(p, raw, password) ==
  /\ FreeSlot(p)
  /\ UserBudget
  /\ LET email == NormalizeEmail(raw) IN
     IF find_one(email) # 0
       THEN Finish(p, "register", "400 E-mail is already registered.",
                   0, 0, NoToken)
       ELSE IF ~EmailStrOk(email)
         THEN Finish(p, "register", "500 ValidationError", 0, 0, NoToken)
         ELSE Suspend(p, [Idle EXCEPT !.op = "register",
                            !.pc = "reg_insert",
                            !.user = NewUser(email, hash_password(password),
                                             FALSE)])
  /\ UNCHANGED <<users, dashboards, now, nextSid, outbox>>

\* await user.insert(); generate_access_token(data={"sub": str(user.id)})
RegisterInsert(p) ==
  /\ req[p].pc = "reg_insert"
  /\ users' = Append(users, req[p].user)
  /\ Suspend(p, [req[p] EXCEPT !.pc = "reg_send",
                   !.uid = Len(users) + 1,
                   !.tok = generate_access_token(Len(users) + 1, now)])
  /\ UNCHANGED <<dashboards, now, nextSid, outbox>>

\* await send_email_verification_link_async(...) inside try / except
RegisterSend(p, delivered) ==
  /\ req[p].pc = "reg_send"
  /\ outbox' = IF delivered THEN outbox \cup {req[p].tok} ELSE outbox
  /\ FinishMail(p, "register", "200 registered", req[p].uid, 0, NoToken,
                Mail(delivered))
  /\ UNCHANGED <<users, dashboards, now, nextSid>>

\* ---------------------------------------------- AuthService.verify_email
\* tokens a client can present: the ones that left the server, and one of
\* them with a signature that does not verify
Tampered ==
  IF outbox = {} THEN {}
  ELSE {[(CHOOSE t \in outbox : TRUE) EXCEPT !.signed = FALSE]}

\* the call up to the completion of `await User.get(user_id)` and the
\* is_verified branch that follows it
VerifyEmail(p, t, device) ==
  /\ FreeSlot(p)
  /\ SidBudget
  /\ DashboardBudget
  /\ IF ~verify_access_token(t, now)
       THEN /\ Finish(p, "verify", "401 Could not validate credentials.",
                      0, 0, NoToken)
            /\ UNCHANGED nextSid
     ELSE IF t.sub = 0
       THEN /\ Finish(p, "verify", "400 Invalid token payload.",
                      0, 0, NoToken)
            /\ UNCHANGED nextSid
     ELSE IF t.sub \notin UserIds
       THEN /\ Finish(p, "verify", "404 User not found.", 0, 0, NoToken)
            /\ UNCHANGED nextSid
     ELSE LET doc == users[t.sub] IN
       IF doc.is_verified
         THEN /\ Suspend(p, [Idle EXCEPT !.op = "verify",
                    !.pc = "ve_save_login",
                    !.uid = t.sub,
                    !.device = device,
                    !.tok = generate_access_token(t.sub, now),
                    !.sid = nextSid,
                    !.entry = [user |-> doc, dashboards |-> Len(dashboards)],
                    !.user = AppendSession(doc, nextSid, now, device)])
              /\ nextSid' = nextSid + 1
         ELSE /\ Suspend(p, [Idle EXCEPT !.op = "verify",
                    !.pc = "ve_dash",
                    !.uid = t.sub,
                    !.device = device,
                    !.entry = [user |-> doc, dashboards |-> Len(dashboards)],
                    !.user = [doc EXCEPT !.is_verified = TRUE]])
              /\ UNCHANGED nextSid
  /\ UNCHANGED <<users, dashboards, now, outbox>>

\* variant: the already-verified branch inserts a Dashboard as well
VerifySaveLogin_InsertsDashboard(p) ==
  /\ req[p].pc = "ve_save_login"
  /\ Save(req[p].uid, req[p].user)
  /\ dashboards' = Append(dashboards, req[p].uid)
  /\ outbox' = outbox \cup {req[p].tok}
  /\ Finish(p, "verify", "200 Email already verified. You are now logged in.",
            req[p].uid, req[p].sid, req[p].tok)
  /\ UNCHANGED <<now, nextSid>>

\* already verified: await user.save(); set_access_token_cookie
VerifySaveLogin(p) ==
  /\ req[p].pc = "ve_save_login"
  /\ Save(req[p].uid, req[p].user)
  /\ outbox' = outbox \cup {req[p].tok}
  /\ Finish(p, "verify", "200 Email already verified. You are now logged in.",
            req[p].uid, req[p].sid, req[p].tok)
  /\ UNCHANGED <<dashboards, now, nextSid>>

\* variant: the first verification inserts the Dashboard twice
VerifyDashInsert_Twice(p) ==
  /\ req[p].pc = "ve_dash"
  /\ dashboards' = Append(Append(dashboards, req[p].uid), req[p].uid)
  /\ Suspend(p, [req[p] EXCEPT !.pc = "ve_save1"])
  /\ UNCHANGED <<users, now, nextSid, outbox>>

\* await user_dashboard.insert()
VerifyDashInsert(p) ==
  /\ req[p].pc = "ve_dash"
  /\ dashboards' = Append(dashboards, req[p].uid)
  /\ Suspend(p, [req[p] EXCEPT !.pc = "ve_save1"])
  /\ UNCHANGED <<users, now, nextSid, outbox>>

\* await user.save(); then the token and the session entry are built
VerifySave1(p) ==
  /\ req[p].pc = "ve_save1"
  /\ Save(req[p].uid, req[p].user)
  /\ Suspend(p, [req[p] EXCEPT
        !.pc = "ve_save2",
        !.tok = generate_access_token(req[p].uid, now),
        !.sid = nextSid,
        !.user = AppendSession(@, nextSid, now, req[p].device)])
  /\ nextSid' = nextSid + 1
  /\ UNCHANGED <<dashboards, now, outbox>>

\* await user.save(); set_access_token_cookie
VerifySave2(p) ==
  /\ req[p].pc = "ve_save2"
  /\ Save(req[p].uid, req[p].user)
  /\ outbox' = outbox \cup {req[p].tok}
  /\ Finish(p, "verify",
            "200 Email verification successful. You are now logged in.",
            req[p].uid, req[p].sid, req[p].tok)
  /\ UNCHANGED <<dashboards, now, nextSid>>

\* one of the store writes of verify_email raises (user.save() or
\* user_dashboard.insert()): `except Exception` turns it into a 400; what
\* the handler wrote before stays written
VerifyStoreFails(p) ==
  /\ req[p].pc \in {"ve_save_login", "ve_dash", "ve_save1", "ve_save2"}
  /\ Finish(p, "verify", "400 Invalid or expired verification token.",
            req[p].uid, 0, NoToken)
  /\ UNCHANGED <<users, dashboards, now, nextSid, outbox>>

\* ----------------------------------------------------- AuthService.login
\* the call up to the completion of `await User.find_one(...)`, the
\* password check and the is_verified branch
Login(p, raw, password, device) ==
  /\ FreeSlot(p)
  /\ SidBudget
  /\ LET uid == find_one(NormalizeEmail(raw)) IN
     IF uid = 0
       THEN /\ Finish(p, "login", "401 Invalid email or password.",
                      0, 0, NoToken)
            /\ UNCHANGED nextSid
       ELSE LET doc == users[uid]
                vp == verify_password(password, doc.password) IN
         IF vp = "raise"
           THEN /\ Finish(p, "login", "500 UnknownHashError", uid, 0, NoToken)
                /\ UNCHANGED nextSid
         ELSE IF vp = "false"
           THEN /\ Finish(p, "login", "401 Invalid email or password.",
                          uid, 0, NoToken)
                /\ UNCHANGED nextSid
         ELSE IF ~doc.is_verified
           THEN /\ Suspend(p, [Idle EXCEPT !.op = "login",
                      !.pc = "lg_send",
                      !.uid = uid,
                      !.user = doc,
                      !.tok = generate_access_token(uid, now)])
                /\ UNCHANGED nextSid
           ELSE /\ Suspend(p, [Idle EXCEPT !.op = "login",
                      !.pc = "lg_save",
                      !.uid = uid,
                      !.device = device,
                      !.tok = generate_access_token(uid, now),
                      !.sid = nextSid,
                      !.user = AppendSession(doc, nextSid, now, device)])
                /\ nextSid' = nextSid + 1
  /\ UNCHANGED <<users, dashboards, now, outbox>>

\* variant: the unverified branch stores a session before it answers 403
LoginSend_AppendsSession(p, delivered) ==
  /\ req[p].pc = "lg_send"
  /\ Save(req[p].uid,
          AppendSession(users[req[p].uid], nextSid, now, req[p].device))
  /\ outbox' = IF delivered THEN outbox \cup {req[p].tok} ELSE outbox
  /\ FinishMail(p, "login",
                "403 Email not verified. A new verification link has been sent.",
                req[p].uid, 0, NoToken, Mail(delivered))
  /\ UNCHANGED <<dashboards, now, nextSid>>

\* not verified: await send_email_verification_link_async inside try/except,
\* then 403
LoginSend(p, delivered) ==
  /\ req[p].pc = "lg_send"
  /\ outbox' = IF delivered THEN outbox \cup {req[p].tok} ELSE outbox
  /\ FinishMail(p, "login",
                "403 Email not verified. A new verification link has been sent.",
                req[p].uid, 0, NoToken, Mail(delivered))
  /\ UNCHANGED <<users, dashboards, now, nextSid>>

\* variant: the new entry replaces the list instead of extending it
LoginSave_OnlyNewSession(p) ==
  /\ req[p].pc = "lg_save"
  /\ Save(req[p].uid,
          [req[p].user EXCEPT !.active_tokens =
             <<@[Len(@)]>>])
  /\ outbox' = outbox \cup {req[p].tok}
  /\ Finish(p, "login", "200 logged in", req[p].uid, req[p].sid, req[p].tok)
  /\ UNCHANGED <<dashboards, now, nextSid>>

\* await user.save(); set_access_token_cookie
LoginSave(p) ==
  /\ req[p].pc = "lg_save"
  /\ Save(req[p].uid, req[p].user)
  /\ outbox' = outbox \cup {req[p].tok}
  /\ Finish(p, "login", "200 logged in", req[p].uid, req[p].sid, req[p].tok)
  /\ UNCHANGED <<dashboards, now, nextSid>>

\* ------------------------------------- AuthService.resend_verification_link
ResendVerificationLink(p, raw) ==
  /\ FreeSlot(p)
  /\ LET uid == find_one(NormalizeEmail(raw)) IN
     IF uid = 0
       THEN Finish(p, "resend", "404 No account found with this email.",
                   0, 0, NoToken)
     ELSE IF users[uid].is_verified
       THEN Finish(p, "resend", "200 Email is already verified.",
                   uid, 0, NoToken)
       ELSE Suspend(p, [Idle EXCEPT !.op = "resend",
                          !.pc = "rs_send",
                          !.uid = uid,
                          !.user = users[uid],
                          !.tok = generate_access_token(uid, now)])
  /\ UNCHANGED <<users, dashboards, now, nextSid, outbox>>

\* await send_email_verification_link_async(...); a failure is raised as 500
ResendSend(p, delivered) ==
  /\ req[p].pc = "rs_send"
  /\ outbox' = IF delivered THEN outbox \cup {req[p].tok} ELSE outbox
  /\ IF delivered
       THEN FinishMail(p, "resend",
                       "200 Verification email resent successfully.",
                       req[p].uid, 0, NoToken, "sent")
       ELSE FinishMail(p, "resend", "500 Failed to send verification email.",
                       req[p].uid, 0, NoToken, "failed")
  /\ UNCHANGED <<users, dashboards, now, nextSid>>

\* ------------------------------------------ OAuthService.login_with_google
\* what the provider answers to the code exchange and to the profile
\* request: a refused exchange, an answer without access_token, a profile
\* without e-mail (email = <<>>) or without sub, and the complete profiles
ProviderAnswers(Prov) ==
  { [ok |-> FALSE, access_token |-> FALSE, email |-> <<>>, sub |-> FALSE,
     email_verified |-> FALSE],
    [ok |-> TRUE, access_token |-> FALSE, email |-> <<>>, sub |-> FALSE,
     email_verified |-> FALSE],
    [ok |-> TRUE, access_token |-> TRUE, email |-> <<>>, sub |-> TRUE,
     email_verified |-> FALSE] }
  \cup {[ok |-> TRUE, access_token |-> TRUE, email |-> e, sub |-> FALSE,
         email_verified |-> TRUE] : e \in Prov}
  \cup {[ok |-> TRUE, access_token |-> TRUE, email |-> e, sub |-> TRUE,
         email_verified |-> v] : e \in Prov, v \in BOOLEAN}

\* variant: the profile is used without the check for email and sub
LoginWithGoogle_NoProfileCheck(p, g, device) ==
  /\ FreeSlot(p)
  /\ UserBudget
  /\ SidBudget
  /\ IF ~g.ok
       THEN /\ Finish(p, "google",
                      "401 Failed to obtain access token from Google.",
                      0, 0, NoToken)
            /\ UNCHANGED nextSid
     ELSE IF ~g.access_token
       THEN /\ Finish(p, "google",
                      "401 Access token missing from Google response",
                      0, 0, NoToken)
            /\ UNCHANGED nextSid
     ELSE LET uid == find_one(g.email) IN
       IF uid = 0
         THEN IF ~EmailStrOk(g.email)
           THEN /\ Finish(p, "google", "500 ValidationError", 0, 0, NoToken)
                /\ UNCHANGED nextSid
           ELSE /\ Suspend(p, [Idle EXCEPT !.op = "google",
                      !.pc = "go_insert",
                      !.device = device,
                      !.user = NewUser(g.email, OAuthSentinel,
                                       g.email_verified)])
                /\ UNCHANGED nextSid
         ELSE LET doc == users[uid]
                  up == IF ~doc.is_verified /\ g.email_verified
                          THEN [doc EXCEPT !.is_verified = TRUE]
                          ELSE doc IN
              /\ Suspend(p, [Idle EXCEPT !.op = "google",
                    !.pc = "go_save",
                    !.uid = uid,
                    !.device = device,
                    !.sid = nextSid,
                    !.user = AppendSession(up, nextSid, now, device)])
              /\ nextSid' = nextSid + 1
  /\ UNCHANGED <<users, dashboards, now, outbox>>

\* the two provider calls (blocking), the profile checks and the call up to
\* the completion of `await User.find_one(User.email == email)`
LoginWithGoogle(p, g, device) ==
  /\ FreeSlot(p)
  /\ UserBudget
  /\ SidBudget
  /\ IF ~g.ok
       THEN /\ Finish(p, "google",
                      "401 Failed to obtain access token from Google.",
                      0, 0, NoToken)
            /\ UNCHANGED nextSid
     ELSE IF ~g.access_token
       THEN /\ Finish(p, "google",
                      "401 Access token missing from Google response",
                      0, 0, NoToken)
            /\ UNCHANGED nextSid
     ELSE IF g.email = <<>> \/ ~g.sub
       THEN /\ Finish(p, "google", "400 Incomplete user info from Google",
                      0, 0, NoToken)
            /\ UNCHANGED nextSid
     ELSE LET uid == find_one(g.email) IN
       IF uid = 0
         THEN IF ~EmailStrOk(g.email)
           THEN /\ Finish(p, "google", "500 ValidationError", 0, 0, NoToken)
                /\ UNCHANGED nextSid
           ELSE /\ Suspend(p, [Idle EXCEPT !.op = "google",
                      !.pc = "go_insert",
                      !.device = device,
                      !.user = NewUser(g.email, OAuthSentinel,
                                       g.email_verified)])
                /\ UNCHANGED nextSid
         ELSE LET doc == users[uid]
                  up == IF ~doc.is_verified /\ g.email_verified
                          THEN [doc EXCEPT !.is_verified = TRUE]
                          ELSE doc IN
              /\ Suspend(p, [Idle EXCEPT !.op = "google",
                    !.pc = "go_save",
                    !.uid = uid,
                    !.device = device,
                    !.sid = nextSid,
                    !.user = AppendSession(up, nextSid, now, device)])
              /\ nextSid' = nextSid + 1
  /\ UNCHANGED <<users, dashboards, now, outbox>>

\* variant: a user that was just created gets no session entry
GoogleInsert_NoSession(p) ==
  /\ req[p].pc = "go_insert"
  /\ users' = Append(users, req[p].user)
  /\ Suspend(p, [req[p] EXCEPT
        !.pc = "go_save",
        !.uid = Len(users) + 1,
        !.sid = nextSid])
  /\ nextSid' = nextSid + 1
  /\ UNCHANGED <<dashboards, now, outbox>>

\* await user.insert(); then the session entry is appended to the object
GoogleInsert(p) ==
  /\ req[p].pc = "go_insert"
  /\ users' = Append(users, req[p].user)
  /\ Suspend(p, [req[p] EXCEPT
        !.pc = "go_save",
        !.uid = Len(users) + 1,
        !.sid = nextSid,
        !.user = AppendSession(@, nextSid, now, req[p].device)])
  /\ nextSid' = nextSid + 1
  /\ UNCHANGED <<dashboards, now, outbox>>

\* await user.save(); generate_access_token; set_access_token_cookie
GoogleSave(p) ==
  /\ req[p].pc = "go_save"
  /\ Save(req[p].uid, req[p].user)
  /\ LET app_token == generate_access_token(req[p].uid, now) IN
     /\ outbox' = outbox \cup {app_token}
     /\ Finish(p, "google", "200 logged in", req[p].uid, req[p].sid, app_token)
  /\ UNCHANGED <<dashboards, now, nextSid>>

\* ------------------------------------------------ utils.get_current_user
\* bearer tokens signed with SECRET_KEY that carry a token_id claim: the
\* tokens get_current_user asks for (no handler of this revision issues one)
SessionTokens ==
  {[sub |-> u, exp |-> now + ACCESS_TOKEN_MINUTES, tid |-> s, signed |-> TRUE] :
     u \in 1..MaxUsers, s \in 1..MaxSid}

PresentedTokens == outbox \cup Tampered \cup SessionTokens

\* a request without the header carries no token at all
BearerInputs ==
  {<<FALSE, NoToken>>} \cup {<<TRUE, t>> : t \in PresentedTokens}

\* variant: the dependency without the look-up in user.active_tokens
get_current_user_NoSessionCheck(hdr, t) ==
  IF ~hdr THEN "401 Missing or invalid authorization header"
  ELSE IF ~verify_access_token(t, now)
    THEN "401 Could not validate credentials."
  ELSE IF t.sub = 0 \/ t.tid = 0 THEN "401 Invalid token payload"
  ELSE IF t.sub \notin UserIds THEN "401 Invalid or expired token"
  ELSE "ok"

\* variant: a token without token_id is accepted for an existing user
get_current_user_OptionalTokenId(hdr, t) ==
  IF ~hdr THEN "401 Missing or invalid authorization header"
  ELSE IF ~verify_access_token(t, now)
    THEN "401 Could not validate credentials."
  ELSE IF t.sub = 0 THEN "401 Invalid token payload"
  ELSE IF t.sub \notin UserIds THEN "401 Invalid or expired token"
  ELSE IF t.tid # 0 /\ t.tid \notin SessionIds(users[t.sub])
    THEN "401 Invalid or expired token"
  ELSE "ok"

\* the dependency every protected route resolves first: "ok", or the 401 it
\* raises; hdr says whether the request has an Authorization: Bearer header
get_current_user(hdr, t) ==
  IF ~hdr THEN "401 Missing or invalid authorization header"
  ELSE IF ~verify_access_token(t, now)
    THEN "401 Could not validate credentials."
  ELSE IF t.sub = 0 \/ t.tid = 0 THEN "401 Invalid token payload"
  ELSE IF t.sub \notin UserIds THEN "401 Invalid or expired token"
  ELSE IF t.tid \notin SessionIds(users[t.sub])
    THEN "401 Invalid or expired token"
  ELSE "ok"

\* a protected route (profile, logout, onboarding-complete, dashboard) whose
\* dependency raises: the route's handler does not run
Unauthorized(p, hdr, t) ==
  /\ FreeSlot(p)
  /\ get_current_user(hdr, t) # "ok"
  /\ Finish(p, "protected", get_current_user(hdr, t), 0, 0, t)
  /\ UNCHANGED <<users, dashboards, now, nextSid, outbox>>

\* GET /auth/profile: get_current_user, then AuthService.get_profile
GetProfile(p, hdr, t) ==
  /\ FreeSlot(p)
  /\ get_current_user(hdr, t) = "ok"
  /\ Finish(p, "profile", "200 profile", t.sub, t.tid, t)
  /\ UNCHANGED <<users, dashboards, now, nextSid, outbox>>

\* ---------------------------------------------------- AuthService.logout
\* variant: only the entry of the presented token is removed
Logout_OnlyNamedSession(p, hdr, t) ==
  /\ FreeSlot(p)
  /\ get_current_user(hdr, t) = "ok"
  /\ Suspend(p, [Idle EXCEPT !.op = "logout",
                   !.pc = "lo_save",
                   !.uid = t.sub,
                   !.sid = t.tid,
                   !.tok = t,
                   !.user = [users[t.sub] EXCEPT !.active_tokens =
                               SelectSeq(@, LAMBDA e :
                                           e.active_token_id # t.tid)]])
  /\ UNCHANGED <<users, dashboards, now, nextSid, outbox>>

\* get_current_user, then user.active_tokens = [] on the loaded document
Logout(p, hdr, t) ==
  /\ FreeSlot(p)
  /\ get_current_user(hdr, t) = "ok"
  /\ Suspend(p, [Idle EXCEPT !.op = "logout",
                   !.pc = "lo_save",
                   !.uid = t.sub,
                   !.sid = t.tid,
                   !.tok = t,
                   !.user = [users[t.sub] EXCEPT !.active_tokens = <<>>]])
  /\ UNCHANGED <<users, dashboards, now, nextSid, outbox>>

\* await user.save(); clear_access_token_cookie
LogoutSave(p) ==
  /\ req[p].pc = "lo_save"
  /\ Save(req[p].uid, req[p].user)
  /\ Finish(p, "logout", "200 Logout successful.", req[p].uid, req[p].sid,
            req[p].tok)
  /\ UNCHANGED <<dashboards, now, nextSid, outbox>>

\* ---------------------------------- AuthService.mark_onboarding_complete
\* variant: every call flips the flag
MarkOnboardingComplete_Toggles(p, hdr, t) ==
  /\ FreeSlot(p)
  /\ get_current_user(hdr, t) = "ok"
  /\ Suspend(p, [Idle EXCEPT !.op = "onboarding",
                   !.pc = "ob_save",
                   !.uid = t.sub,
                   !.sid = t.tid,
                   !.tok = t,
                   !.user = [users[t.sub] EXCEPT
                               !.has_completed_onboarding = ~@]])
  /\ UNCHANGED <<users, dashboards, now, nextSid, outbox>>

MarkOnboardingComplete(p, hdr, t) ==
  /\ FreeSlot(p)
  /\ get_current_user(hdr, t) = "ok"
  /\ IF users[t.sub].has_completed_onboarding
       THEN Finish(p, "onboarding", "200 Onboarding already completed.",
                   t.sub, t.tid, t)
       ELSE Suspend(p, [Idle EXCEPT !.op = "onboarding",
                          !.pc = "ob_save",
                          !.uid = t.sub,
                          !.sid = t.tid,
                          !.tok = t,
                          !.user = [users[t.sub] EXCEPT
                                      !.has_completed_onboarding = TRUE]])
  /\ UNCHANGED <<users, dashboards, now, nextSid, outbox>>

\* await user.save()
OnboardingSave(p) ==
  /\ req[p].pc = "ob_save"
  /\ Save(req[p].uid, req[p].user)
  /\ Finish(p, "onboarding",
            "200 User onboarding status updated successfully.",
            req[p].uid, req[p].sid, req[p].tok)
  /\ UNCHANGED <<dashboards, now, nextSid, outbox>>

\* ------------------------------------------------------- specifications
\* requests in parallel within one clock instant: every slot can run any
\* handler
Next ==
  \/ \E p \in Procs, raw \in ConcEmails, pw \in RegisterPasswords :
       Register(p, raw, pw)
  \/ \E p \in Procs : RegisterInsert(p)
  \/ \E p \in Procs, delivered \in BOOLEAN : RegisterSend(p, delivered)
  \/ \E p \in Procs, t \in outbox \cup Tampered, d \in Devices :
       VerifyEmail(p, t, d)
  \/ \E p \in Procs : VerifySaveLogin(p)
  \/ \E p \in Procs : VerifyDashInsert(p)
  \/ \E p \in Procs : VerifySave1(p)
  \/ \E p \in Procs : VerifySave2(p)
  \/ \E p \in Procs : VerifyStoreFails(p)
  \/ \E p \in Procs, raw \in ConcEmails, pw \in Passwords, d \in Devices :
       Login(p, raw, pw, d)
  \/ \E p \in Procs, delivered \in BOOLEAN : LoginSend(p, delivered)
  \/ \E p \in Procs : LoginSave(p)
  \/ \E p \in Procs, raw \in ConcEmails : ResendVerificationLink(p, raw)
  \/ \E p \in Procs, delivered \in BOOLEAN : ResendSend(p, delivered)
  \/ \E p \in Procs, g \in ProviderAnswers(ConcProviderEmails), d \in Devices :
       LoginWithGoogle(p, g, d)
  \/ \E p \in Procs : GoogleInsert(p)
  \/ \E p \in Procs : GoogleSave(p)
  \/ \E p \in Procs, b \in BearerInputs : Unauthorized(p, b[1], b[2])
  \/ \E p \in Procs, b \in BearerInputs : GetProfile(p, b[1], b[2])
  \/ \E p \in Procs, b \in BearerInputs : Logout(p, b[1], b[2])
  \/ \E p \in Procs : LogoutSave(p)
  \/ \E p \in Procs, b \in BearerInputs : MarkOnboardingComplete(p, b[1], b[2])
  \/ \E p \in Procs : OnboardingSave(p)

Spec == Init /\ [][Next]_vars

\* one request at a time: the handlers run in slot 1, each to its end
SeqNext ==
  \/ Tick
  \/ \E raw \in SeqEmails, pw \in RegisterPasswords : Register(1, raw, pw)
  \/ RegisterInsert(1)
  \/ \E delivered \in BOOLEAN : RegisterSend(1, delivered)
  \/ \E t \in outbox \cup Tampered, d \in Devices : VerifyEmail(1, t, d)
  \/ VerifySaveLogin(1)
  \/ VerifyDashInsert(1)
  \/ VerifySave1(1)
  \/ VerifySave2(1)
  \/ VerifyStoreFails(1)
  \/ \E raw \in SeqEmails, pw \in Passwords, d \in Devices :
       Login(1, raw, pw, d)
  \/ \E delivered \in BOOLEAN : LoginSend(1, delivered)
  \/ LoginSave(1)
  \/ \E raw \in SeqEmails : ResendVerificationLink(1, raw)
  \/ \E delivered \in BOOLEAN : ResendSend(1, delivered)
  \/ \E g \in ProviderAnswers(SeqProviderEmails), d \in Devices :
       LoginWithGoogle(1, g, d)
  \/ GoogleInsert(1)
  \/ GoogleSave(1)
  \/ \E b \in BearerInputs : Unauthorized(1, b[1], b[2])
  \/ \E b \in BearerInputs : GetProfile(1, b[1], b[2])
  \/ \E b \in BearerInputs : Logout(1, b[1], b[2])
  \/ LogoutSave(1)
  \/ \E b \in BearerInputs : MarkOnboardingComplete(1, b[1], b[2])
  \/ OnboardingSave(1)

SeqSpec == Init /\ [][SeqNext]_vars

\* two clients log in to one account at the same time.  The store is the
\* one a user leaves behind who registered, verified the e-mail and logged
\* out: verified, one Dashboard, no session entry
RaceInit ==
  /\ users = <<NewUser(<<"a">>, hash_password("pw1"), TRUE)>>
  /\ dashboards = <<1>>
  /\ now = 0
  /\ nextSid = 1
  /\ outbox = {}
  /\ req = [p \in Procs |-> Idle]
  /\ response = NoResponse

RaceNext ==
  \/ Tick
  \/ \E p \in Procs, raw \in ConcEmails, pw \in Passwords, d \in Devices :
       Login(p, raw, pw, d)
  \/ \E p \in Procs : LoginSave(p)
  \/ \E p \in Procs, b \in BearerInputs : Unauthorized(p, b[1], b[2])
  \/ \E p \in Procs, b \in BearerInputs : GetProfile(p, b[1], b[2])

RaceSpec == RaceInit /\ [][RaceNext]_vars

\* the call the request in slot p awaits (store, mail, provider) completes
\* and the event loop resumes the handler up to its next await or its end
Answers(p) ==
  \/ RegisterInsert(p)
  \/ \E delivered \in BOOLEAN : RegisterSend(p, delivered)
  \/ VerifySaveLogin(p)
  \/ VerifyDashInsert(p)
  \/ VerifySave1(p)
  \/ VerifySave2(p)
  \/ VerifyStoreFails(p)
  \/ \E delivered \in BOOLEAN : LoginSend(p, delivered)
  \/ LoginSave(p)
  \/ \E delivered \in BOOLEAN : ResendSend(p, delivered)
  \/ GoogleInsert(p)
  \/ GoogleSave(p)
  \/ LogoutSave(p)
  \/ OnboardingSave(p)

\* the concurrent system where every awaited call eventually completes
LiveSpec == Init /\ [][Next]_vars /\ \A p \in Procs : WF_vars(Answers(p))

\* ------------------------------------------------------------ properties
Norm(i) == TrimFold(users[i].email)

DashCount(u) == Cardinality({k \in DOMAIN dashboards : dashboards[k] = u})

\* the user an address names: the one stored under its trimmed, folded form
Named(raw) == {u \in UserIds : users[u].email = TrimFold(raw)}

\* new is old with exactly one entry appended, whose id is sid
AppendedOne(old, new, sid) ==
  /\ Len(new.active_tokens) = Len(old.active_tokens) + 1
  /\ SubSeq(new.active_tokens, 1, Len(old.active_tokens)) = old.active_tokens
  /\ new.active_tokens[Len(new.active_tokens)].active_token_id = sid
  /\ [new EXCEPT !.active_tokens = old.active_tokens] = old

Without(entries, sid) ==
  SelectSeq(entries, LAMBDA e : e.active_token_id # sid)

\* the step is slot p taking a new request for handler op
Enters(p, op) ==
  /\ req[p].pc = "idle"
  /\ req'[p].op = op \/ response'.op = op

OthersUnchanged(u) ==
  /\ Len(users') = Len(users)
  /\ \A v \in UserIds : v # u => users'[v] = users[v]

\* C1: in every reachable state, under any interleaving of register and
\* loginWithGoogle requests, no two User records have the same normalized
\* (trimmed, case-folded) e-mail
C1_UniqueNormalizedEmail ==
  \A i, j \in UserIds : i # j => Norm(i) # Norm(j)

\* C2: in every reachable state, under any interleaving of verifyEmail calls
\* with the other operations, each user owns at most one Dashboard record
C2_AtMostOneDashboard ==
  \A u \in UserIds : DashCount(u) <= 1

\* C3: the access token a successful login, verifyEmail or loginWithGoogle
\* returns carries the id of the session entry the call appended, and passes
\* access-token validation while it is unexpired and the entry is stored
SessionIssued ==
  /\ response.op \in {"login", "verify", "google"}
  /\ response.sid # 0

C3_TokenCarriesSessionId ==
  SessionIssued =>
    /\ response.tok.tid = response.sid
    /\ (/\ now < response.tok.exp
        /\ response.sid \in SessionIds(users[response.uid]))
         => get_current_user(TRUE, response.tok) = "ok"

\* C4: a signed, unexpired access token whose session id is not in the
\* owning user's session list is refused by access-token validation with
\* the session-registry error (401 Invalid or expired token)
Revoked(t) ==
  /\ t.signed
  /\ now < t.exp
  /\ t.tid # 0
  /\ t.sub \in UserIds
  /\ t.tid \notin SessionIds(users[t.sub])

C4_RevokedSessionRejected ==
  (response.op \in {"protected", "profile"} /\ Revoked(response.tok))
    => response.result = "401 Invalid or expired token"

\* the session id was issued and stored, and a logout has removed it since
C4_Witness ==
  /\ response.op = "protected"
  /\ response.result = "401 Invalid or expired token"
  /\ Revoked(response.tok)
  /\ response.tok.tid < nextSid

\* C5: for a user with two or more sessions, logout(user, sessionId) removes
\* exactly the entry with that session id and leaves the other entries as
\* they were
C5_LogoutRemovesOnlyNamedSession ==
  [][\A p \in Procs :
       (LogoutSave(p) /\ Len(users[req[p].uid].active_tokens) >= 2)
         => users'[req[p].uid].active_tokens =
              Without(users[req[p].uid].active_tokens, req[p].sid)]_vars

\* C6: login with the correct password for a user whose is_verified is false
\* ends in 403 Email not verified, whether the re-sent mail is delivered or
\* not, and no step of the call changes a stored session list
CorrectPasswordUnverified(raw, pw) ==
  \E u \in Named(raw) :
    /\ verify_password(pw, users[u].password) = "true"
    /\ ~users[u].is_verified

C6_UnverifiedLoginRejected ==
  [][\A p \in Procs :
       /\ \A raw \in SeqEmails, pw \in Passwords, d \in Devices :
            (/\ Enters(p, "login")
             /\ Login(p, raw, pw, d)
             /\ CorrectPasswordUnverified(raw, pw))
              => /\ req'[p].pc = "lg_send"
                 /\ req'[p].uid \in Named(raw)
                 /\ users' = users
       /\ \A delivered \in BOOLEAN :
            LoginSend(p, delivered)
              => /\ response'.result =
                      "403 Email not verified. A new verification link has been sent."
                 /\ response'.mail = Mail(delivered)
                 /\ users' = users]_vars

\* the mail could not be delivered and the login is refused all the same
C6_Witness ==
  /\ response.op = "login"
  /\ response.result =
       "403 Email not verified. A new verification link has been sent."
  /\ response.mail = "failed"
  /\ ~users[response.uid].is_verified
  /\ users[response.uid].active_tokens = <<>>

\* C7: verifyEmail with a valid token for a user that is not verified sets
\* is_verified from false to true, inserts exactly one Dashboard owned by the
\* user and appends exactly one session; a valid token of that user presented
\* afterwards takes the already-verified branch
ValidFor(t) == verify_access_token(t, now) /\ t.sub \in UserIds

C7_FirstVerification ==
  [][\A p \in Procs :
       LET u == req[p].uid IN
       /\ \A t \in outbox, d \in Devices :
            (VerifyEmail(p, t, d) /\ ValidFor(t) /\ ~users[t.sub].is_verified)
              => /\ req'[p].pc = "ve_dash"
                 /\ req'[p].uid = t.sub
                 /\ users' = users
                 /\ dashboards' = dashboards
       /\ VerifyDashInsert(p)
            => /\ dashboards' = Append(dashboards, u)
               /\ users' = users
       /\ VerifySave1(p)
            => /\ ~users[u].is_verified
               /\ users' = [users EXCEPT ![u].is_verified = TRUE]
               /\ dashboards' = dashboards
       /\ VerifySave2(p)
            => /\ AppendedOne(users[u], users'[u], req[p].sid)
               /\ users'[u].is_verified
               /\ OthersUnchanged(u)
               /\ dashboards' = dashboards
               /\ response'.result =
                    "200 Email verification successful. You are now logged in."
       /\ \A t \in outbox, d \in Devices :
            (/\ VerifyEmail(p, t, d)
             /\ ValidFor(t)
             /\ users[t.sub].is_verified
             /\ DashCount(t.sub) > 0)
              => req'[p].pc = "ve_save_login"]_vars

\* the token is presented again after the first verification
C7_Witness ==
  /\ response.op = "verify"
  /\ response.result = "200 Email already verified. You are now logged in."
  /\ DashCount(response.uid) = 1
  /\ Len(users[response.uid].active_tokens) = 2

\* C8: verifyEmail with a valid token for a user that is already verified
\* appends exactly one session entry, inserts no Dashboard, sends no mail and
\* leaves is_verified true
C8_VerifiedReplayIsLogin ==
  [][\A p \in Procs :
       LET u == req[p].uid IN
       /\ \A t \in outbox, d \in Devices :
            (VerifyEmail(p, t, d) /\ ValidFor(t) /\ users[t.sub].is_verified)
              => /\ req'[p].pc = "ve_save_login"
                 /\ req'[p].uid = t.sub
                 /\ users' = users
                 /\ dashboards' = dashboards
                 /\ outbox' = outbox
       /\ VerifySaveLogin(p)
            => /\ AppendedOne(users[u], users'[u], req[p].sid)
               /\ users'[u].is_verified
               /\ OthersUnchanged(u)
               /\ dashboards' = dashboards
               /\ response'.mail = "none"
               /\ response'.result =
                    "200 Email already verified. You are now logged in."]_vars

\* a verified user that never had a Dashboard logs in with a token
C8_Witness ==
  /\ response.op = "verify"
  /\ response.result = "200 Email already verified. You are now logged in."
  /\ users[response.uid].is_verified
  /\ DashCount(response.uid) = 0
  /\ response.sid \in SessionIds(users[response.uid])

\* C9: register with an address whose trimmed, case-folded form is the stored
\* e-mail of a user fails with 400 E-mail is already registered and inserts
\* nothing
C9_DuplicateEmailRejected ==
  [][\A p \in Procs, raw \in SeqEmails, pw \in RegisterPasswords :
       (Register(p, raw, pw) /\ Named(raw) # {})
         => /\ response'.result = "400 E-mail is already registered."
            /\ users' = users]_vars

\* C10: login answers 401 Invalid email or password both when the address
\* names no user and when it names a user whose password does not verify,
\* and changes no user record
C10_SameInvalidCredentials ==
  [][\A p \in Procs, raw \in SeqEmails, pw \in Passwords, d \in Devices :
       (/\ Login(p, raw, pw, d)
        /\ \A u \in Named(raw) :
             verify_password(pw, users[u].password) # "true")
         => /\ response'.result = "401 Invalid email or password."
            /\ users' = users]_vars

\* C11: once a stored user's is_verified is true it is true in every later
\* state, under any interleaving of the operations
C11_VerifiedIsMonotonic ==
  [][\A u \in UserIds : users[u].is_verified => users'[u].is_verified]_vars

\* C12: a successful login of a verified user appends exactly one session
\* entry with a session id no stored entry has, and keeps every entry the
\* user had
CorrectPasswordVerified(raw, pw) ==
  \E u \in Named(raw) :
    /\ verify_password(pw, users[u].password) = "true"
    /\ users[u].is_verified

FreshSid(sid) == \A v \in UserIds : sid \notin SessionIds(users[v])

C12_LoginAppendsOneSession ==
  [][\A p \in Procs :
       LET u == req[p].uid IN
       /\ \A raw \in SeqEmails, pw \in Passwords, d \in Devices :
            (/\ Enters(p, "login")
             /\ Login(p, raw, pw, d)
             /\ CorrectPasswordVerified(raw, pw))
              => /\ req'[p].pc = "lg_save"
                 /\ req'[p].uid \in Named(raw)
                 /\ users' = users
       /\ LoginSave(p)
            => /\ FreshSid(req[p].sid)
               /\ AppendedOne(users[u], users'[u], req[p].sid)
               /\ OthersUnchanged(u)
               /\ response'.result = "200 logged in"]_vars

\* the second of two successive logins: two entries are stored
C12_Witness ==
  /\ response.op = "login"
  /\ response.result = "200 logged in"
  /\ Len(users[response.uid].active_tokens) = 2
  /\ users[response.uid].password.scheme = "bcrypt"

\* C13: after a logout the user's session list is empty and every token
\* issued to the user before it is refused by access-token validation
IssuedTo(u) ==
  {t \in outbox : t.sub = u}
    \cup {t \in SessionTokens : t.sub = u /\ t.tid < nextSid}

C13_LogoutRevokesEverything ==
  (response.op = "logout" /\ response.result = "200 Logout successful.")
    => /\ users[response.uid].active_tokens = <<>>
       /\ \A t \in IssuedTo(response.uid) : get_current_user(TRUE, t) # "ok"

\* the user held two sessions and has tokens that have not expired
C13_Witness ==
  /\ response.op = "logout"
  /\ response.result = "200 Logout successful."
  /\ users[response.uid].active_tokens = <<>>
  /\ nextSid > 2
  /\ \E t \in IssuedTo(response.uid) : verify_access_token(t, now)

\* C14: a token that carries a subject and no session id, as the
\* verification tokens do, never passes access-token validation, whatever
\* the subject's session list holds
C14_VerificationTokenIsNoAccessToken ==
  /\ \A t \in outbox : t.tid = 0 => get_current_user(TRUE, t) # "ok"
  /\ (response.op \in {"protected", "profile", "logout", "onboarding"}
        /\ response.tok.tid = 0)
       => response.op = "protected"

\* an unexpired verification token of a user with a stored session is refused
C14_Witness ==
  /\ response.op = "protected"
  /\ response.tok \in outbox
  /\ response.tok.tid = 0
  /\ verify_access_token(response.tok, now)
  /\ response.tok.sub \in UserIds
  /\ users[response.tok.sub].active_tokens # <<>>
  /\ response.result = "401 Invalid token payload"

\* C15: within each user's session list no two entries share a session id
C15_SessionIdsDistinct ==
  \A u \in UserIds :
    \A i, j \in DOMAIN users[u].active_tokens :
      i # j => users[u].active_tokens[i].active_token_id
                 # users[u].active_tokens[j].active_token_id

C15_Witness ==
  \E u \in UserIds :
    /\ Len(users[u].active_tokens) = 2
    /\ Cardinality(SessionIds(users[u])) = 2

\* C16: when the provider's e-mail differs only in letter case or surrounding
\* whitespace from a stored e-mail, loginWithGoogle resolves to that user
\* and creates no User record
CompleteProfile(g) ==
  g.ok /\ g.access_token /\ g.email # <<>> /\ g.sub

SameNormalized(e) == {u \in UserIds : Norm(u) = TrimFold(e)}

C16_GoogleLooksUpNormalized ==
  [][\A p \in Procs, d \in Devices :
       \A g \in ProviderAnswers(SeqProviderEmails) :
         (/\ LoginWithGoogle(p, g, d)
          /\ CompleteProfile(g)
          /\ SameNormalized(g.email) # {})
           => /\ req'[p].pc = "go_save"
              /\ req'[p].uid \in SameNormalized(g.email)]_vars

\* C17: a loginWithGoogle call whose exchange and profile are complete
\* appends exactly one session entry to the found or created user and
\* returns an access token, whether or not the user existed and whether or
\* not the provider reports the e-mail as verified
C17_GoogleAppendsOneSession ==
  [][\A p \in Procs :
       LET u == req[p].uid IN
       /\ \A d \in Devices, g \in ProviderAnswers(SeqProviderEmails) :
            (/\ Enters(p, "google")
             /\ LoginWithGoogle(p, g, d)
             /\ CompleteProfile(g))
              => /\ req'[p].pc \in {"go_insert", "go_save"}
                 /\ users' = users
       /\ GoogleInsert(p)
            => /\ req'[p].pc = "go_save"
               /\ req'[p].uid = Len(users) + 1
               /\ users' = Append(users, req[p].user)
               /\ req[p].user.active_tokens = <<>>
       /\ GoogleSave(p)
            => /\ AppendedOne([users[u] EXCEPT
                                !.is_verified = users'[u].is_verified],
                              users'[u], req[p].sid)
               /\ OthersUnchanged(u)
               /\ response'.result = "200 logged in"
               /\ response'.tok.signed
               /\ response'.tok.sub = u
               /\ now < response'.tok.exp
               /\ response'.tok \in outbox']_vars

\* an existing user the provider reports as unverified gets a second session
C17_Witness ==
  /\ response.op = "google"
  /\ response.result = "200 logged in"
  /\ ~users[response.uid].is_verified
  /\ Len(users[response.uid].active_tokens) = 2

\* C18: a loginWithGoogle call that fails in the exchange or on an
\* incomplete profile creates no User record and changes no stored user
GoogleRefusals ==
  {"401 Failed to obtain access token from Google.",
   "401 Access token missing from Google response",
   "400 Incomplete user info from Google"}

C18_FailedGoogleChangesNothing ==
  [][\A p \in Procs, d \in Devices :
       \A g \in ProviderAnswers(SeqProviderEmails) :
         (/\ Enters(p, "google")
          /\ LoginWithGoogle(p, g, d)
          /\ ~CompleteProfile(g))
           => /\ response'.result \in GoogleRefusals
              /\ req'[p].pc = "idle"
              /\ users' = users]_vars

\* the profile is refused while users are stored
C18_Witness ==
  /\ response.op = "google"
  /\ response.result = "400 Incomplete user info from Google"
  /\ \E u \in UserIds : users[u].active_tokens # <<>>

\* C19: login against a user whose stored password is the OAuth sentinel
\* answers 401 Invalid email or password for every supplied password:
\* password verification returns false and does not raise
C19_SentinelLoginIsInvalidCredentials ==
  (/\ response.op = "login"
   /\ response.uid \in UserIds
   /\ users[response.uid].password = OAuthSentinel)
    => response.result = "401 Invalid email or password."

\* C20: register with an address no stored user has succeeds and stores a
\* new user with is_verified false and no session, whether the verification
\* mail is delivered or not
C20_RegisterSucceedsWithoutMail ==
  [][\A p \in Procs :
       /\ \A raw \in SeqEmails, pw \in RegisterPasswords :
            (Register(p, raw, pw) /\ SameNormalized(raw) = {})
              => /\ req'[p].pc = "reg_insert"
                 /\ req'[p].user = NewUser(TrimFold(raw), hash_password(pw),
                                           FALSE)
       /\ RegisterInsert(p)
            => /\ users' = Append(users, req[p].user)
               /\ ~req[p].user.is_verified
               /\ req[p].user.active_tokens = <<>>
       /\ \A delivered \in BOOLEAN :
            RegisterSend(p, delivered)
              => /\ response'.result = "200 registered"
                 /\ response'.mail = Mail(delivered)
                 /\ users' = users]_vars

\* C21: resendVerification changes no user record; for a verified user it
\* answers success and sends nothing, for an unverified user it answers
\* success when the mail is delivered and 500 Failed to send otherwise
C21_ResendOutcome ==
  [][\A p \in Procs :
       /\ \A raw \in SeqEmails :
            ResendVerificationLink(p, raw)
              => /\ users' = users
                 /\ \A u \in Named(raw) :
                      IF users[u].is_verified
                        THEN /\ response'.result =
                                  "200 Email is already verified."
                             /\ response'.mail = "none"
                             /\ outbox' = outbox
                        ELSE /\ req'[p].pc = "rs_send"
                             /\ req'[p].uid = u
       /\ \A delivered \in BOOLEAN :
            ResendSend(p, delivered)
              => /\ users' = users
                 /\ response'.result =
                      IF delivered
                        THEN "200 Verification email resent successfully."
                        ELSE "500 Failed to send verification email."]_vars

\* C22: token verification accepts a token, and hands its claims to the
\* caller, exactly when the token is signed with the secret and the time is
\* before its expiry; a tampered and an expired token get the same 401
Signed(t) == t.signed
Unexpired(t) == now < t.exp
InvalidToken == "401 Could not validate credentials."

C22_TokenVerification ==
  [][\A p \in Procs :
       /\ Enters(p, "verify")
            => \A t \in outbox \cup Tampered, d \in Devices :
                 VerifyEmail(p, t, d)
                   => /\ response'.result = InvalidToken
                           <=> ~(Signed(t) /\ Unexpired(t))
                      /\ (Signed(t) /\ Unexpired(t) /\ t.sub \in UserIds)
                           => req'[p].uid = t.sub
       /\ Enters(p, "protected")
            => \A t \in PresentedTokens :
                 Unauthorized(p, TRUE, t)
                   => (response'.result = InvalidToken
                         <=> ~(Signed(t) /\ Unexpired(t)))
       /\ Enters(p, "profile")
            => \A t \in PresentedTokens :
                 GetProfile(p, TRUE, t)
                   => /\ Signed(t) /\ Unexpired(t)
                      /\ response'.uid = t.sub]_vars

\* a token the server issued is refused once its expiry has passed
C22_Witness ==
  /\ response.op = "protected"
  /\ response.tok \in outbox
  /\ Signed(response.tok)
  /\ ~Unexpired(response.tok)
  /\ response.result = InvalidToken

\* C23: every completeOnboarding call succeeds, the flag is true after it,
\* a call on a user whose flag is true changes nothing, and no step sets a
\* flag that is true back to false
C23_OnboardingIdempotent ==
  [][/\ \A p \in Procs :
          /\ \A b \in BearerInputs :
               (/\ Enters(p, "onboarding")
                /\ MarkOnboardingComplete(p, b[1], b[2]))
                 => /\ users' = users
                    /\ IF users[b[2].sub].has_completed_onboarding
                         THEN response'.result =
                                "200 Onboarding already completed."
                         ELSE req'[p].pc = "ob_save"
          /\ OnboardingSave(p)
               => /\ users'[req[p].uid] =
                       [users[req[p].uid] EXCEPT
                          !.has_completed_onboarding = TRUE]
                  /\ OthersUnchanged(req[p].uid)
                  /\ response'.result =
                       "200 User onboarding status updated successfully."
     /\ \A u \in UserIds :
          users[u].has_completed_onboarding
            => users'[u].has_completed_onboarding]_vars

\* a repeated call on a user that completed the onboarding
C23_Witness ==
  /\ response.op = "onboarding"
  /\ response.result = "200 Onboarding already completed."
  /\ users[response.uid].has_completed_onboarding

\* C24: register with an address in mixed case with surrounding blanks,
\* verifyEmail, login with a wrong password, login with the right one: the
\* user is stored under the normalized address with is_verified false, then
\* is verified with one session, then gets 401 with the list unchanged,
\* then holds exactly two sessions
RawMixed == <<" ", "A", " ">>

C24_RegisterVerifyLogin ==
  [][\A p \in Procs :
       LET u == req[p].uid IN
       /\ \A pw \in RegisterPasswords :
            (/\ Enters(p, "register")
             /\ Register(p, RawMixed, pw)
             /\ SameNormalized(RawMixed) = {})
              => /\ req'[p].pc = "reg_insert"
                 /\ req'[p].user =
                      NewUser(TrimFold(RawMixed), hash_password(pw), FALSE)
       /\ RegisterInsert(p) => users' = Append(users, req[p].user)
       /\ (VerifySave2(p) /\ users[u].active_tokens = <<>>)
            => /\ users'[u].is_verified
               /\ Len(users'[u].active_tokens) = 1
       /\ \A raw \in SeqEmails, pw \in Passwords, d \in Devices :
            (/\ Enters(p, "login")
             /\ Login(p, raw, pw, d)
             /\ \E v \in Named(raw) :
                  verify_password(pw, users[v].password) = "false")
              => /\ response'.result = "401 Invalid email or password."
                 /\ users' = users
       /\ (LoginSave(p) /\ Len(users[u].active_tokens) = 1)
            => /\ Len(users'[u].active_tokens) = 2
               /\ users'[u].active_tokens[1] = users[u].active_tokens[1]
               /\ response'.result = "200 logged in"]_vars

\* the end of the sequence: session 1 from verifyEmail, session 2 from login
C24_Witness ==
  /\ Len(users) = 1
  /\ users[1].email = TrimFold(RawMixed)
  /\ users[1].password.scheme = "bcrypt"
  /\ users[1].is_verified
  /\ DashCount(1) = 1
  /\ response.op = "login"
  /\ response.result = "200 logged in"
  /\ response.sid = 2
  /\ SessionIds(users[1]) = {1, 2}

\* C25: when two logins of one user each load the session list before the
\* other saves, the later save replaces the whole list: the entry the
\* earlier login stored is gone and only the later login's entry is added
C25_LaterSaveOverwrites ==
  [][\A q \in Procs :
       LoginSave(q)
         => LET u == req[q].uid IN
            /\ users'[u].active_tokens = req[q].user.active_tokens
            /\ req[q].sid \in SessionIds(users'[u])
            /\ \A s \in SessionIds(users[u]) \ SessionIds(req[q].user) :
                 s \notin SessionIds(users'[u])]_vars

\* both logins have answered and one entry is stored
C25_Witness ==
  /\ \A p \in Procs : req[p].pc = "idle"
  /\ nextSid = 3
  /\ response.op = "login"
  /\ response.result = "200 logged in"
  /\ Len(users[response.uid].active_tokens) = 1

\* C26: after a logout has completed, no entry that was stored before it is
\* stored again, under any interleaving: what the next step stores for the
\* user are entries requests in flight have newly drawn
NewSids ==
  {req[q].sid : q \in {r \in Procs : req[r].op \in {"login", "verify", "google"}}}

C26_LogoutIsFinal ==
  [][(response.op = "logout" /\ response.result = "200 Logout successful.")
       => SessionIds(users'[response.uid]) \subseteq NewSids]_vars

\* C27: a verifyEmail call that fails (token refused, user not found, or a
\* store write raising part-way) leaves is_verified, the session list and
\* the Dashboard records as they were when the call started
C27_FailedVerifyChangesNothing ==
  [][\A p \in Procs :
       /\ \A t \in outbox \cup Tampered, d \in Devices :
            (VerifyEmail(p, t, d) /\ req'[p].pc = "idle")
              => users' = users /\ dashboards' = dashboards
       /\ VerifyStoreFails(p)
            => LET u == req[p].uid IN
               /\ users'[u].is_verified = req[p].entry.user.is_verified
               /\ users'[u].active_tokens = req[p].entry.user.active_tokens
               /\ Len(dashboards') = req[p].entry.dashboards]_vars

\* C28: in every reachable state each user whose is_verified is true owns
\* exactly one Dashboard
C28_VerifiedOwnsOneDashboard ==
  \A u \in UserIds : users[u].is_verified => DashCount(u) = 1

\* C29: in every reachable state a user whose is_verified is false has an
\* empty session list
C29_UnverifiedHasNoSession ==
  \A u \in UserIds : ~users[u].is_verified => users[u].active_tokens = <<>>

\* C30: with one request at a time, a step that is not the save of a logout
\* for the user, the passing of time included, keeps every stored session
\* entry: the list after the step extends the list before it
IsPrefix(a, b) == Len(a) <= Len(b) /\ SubSeq(b, 1, Len(a)) = a

C30_OnlyLogoutRemoves ==
  [][\A u \in UserIds :
       ~(\E p \in Procs : LogoutSave(p) /\ req[p].uid = u)
         => IsPrefix(users[u].active_tokens, users'[u].active_tokens)]_vars

\* an entry past its expiry is still stored after a later login
C30_Witness ==
  /\ response.op \in {"login", "verify", "google"}
  /\ response.sid # 0
  /\ Len(users[response.uid].active_tokens) = 2
  /\ users[response.uid].active_tokens[1].expires_in <= now


\* C31: when the store, the mail capability and the provider eventually
\* answer, every request that was started eventually returns, and what a
\* request returns is a success or one of the named errors
SuccessResults ==
  { "200 registered",
    "200 Email already verified. You are now logged in.",
    "200 Email verification successful. You are now logged in.",
    "200 Email is already verified.",
    "200 Verification email resent successfully.",
    "200 logged in",
    "200 profile",
    "200 Logout successful.",
    "200 Onboarding already completed.",
    "200 User onboarding status updated successfully." }

NamedErrors ==
  { "400 E-mail is already registered.",
    "401 Invalid email or password.",
    "403 Email not verified. A new verification link has been sent.",
    "401 Could not validate credentials.",
    "400 Invalid token payload.",
    "400 Invalid or expired verification token.",
    "401 Invalid token payload",
    "404 User not found.",
    "404 No account found with this email.",
    "401 Invalid or expired token",
    "401 Missing or invalid authorization header",
    "400 Incomplete user info from Google",
    "401 Failed to obtain access token from Google.",
    "401 Access token missing from Google response",
    "500 Failed to send verification email." }

Returns(p) == req[p].pc = "idle"

EveryRequestReturns == \A p \in Procs : (~Returns(p)) ~> Returns(p)

C31_RequestsReturnNamedResult ==
  /\ EveryRequestReturns
  /\ [](response.result \in {"none"} \cup SuccessResults \cup NamedErrors)

====
